---- MODULE Spec2Model ----
(***************************************************************************)
(* SmolNBody: an N-body simulation whose four systems (update_time,        *)
(* apply_gravity, update_vels, update_positions) are registered with a     *)
(* SmolECS SystemScheduler and run for a fixed number of ticks over the    *)
(* component stores of one World (src/src/main.rs).                        *)
(*                                                                         *)
(* Numbers.  An f32/f64 value is modelled as a pair <<k, c>>:              *)
(*   c = 1   the finite value k / F32.scale;                               *)
(*   <<1,0>> +Inf,  <<-1,0>> -Inf,  <<0,0>> NaN.                           *)
(* A finite result is rounded to the nearest representable value (ties to  *)
(* even) and overflows to an infinity beyond F32.max; the special values   *)
(* follow IEEE-754 (x/0, 0/0, Inf-Inf, 0*Inf, comparisons with NaN).  The  *)
(* format is far coarser than binary32 and the sign of zero is not kept.   *)
(***************************************************************************)
EXTENDS Integers, Sequences, FiniteSets, TLC

VARIABLES
    n,          \* the body count parsed from the command line
    pool,       \* number of worker threads of the scheduler's pool
    mainPc,     \* position of main
    idx,        \* statements or iterations done in the current phase of main
    ents,       \* EntityStorage: the live entity identifiers
    bodies,     \* component store Body (a tag): entities that have it
    masses,     \* component store Mass:         entity -> mass
    accels,     \* component store Acceleration: entity -> <<x, y>>
    vels,       \* component store Velocity:     entity -> <<x, y>>
    positions,  \* component store Position:     entity -> <<x, y>>
    bounds,     \* resource WorldBounds
    time,       \* resource Time
    handles,    \* outstanding read/write handles: <<holder, store, mode>>
    sched,      \* stages registered with the scheduler: name -> prerequisites
    status,     \* per registered stage: idle, waiting, queued, running, done
    stageTick,  \* per stage: the tick in which it was last dispatched
    ran,        \* per stage: number of executions in the current tick
    tick,       \* number of calls of scheduler.run made so far
    clockLog,   \* accesses to the Time resource in the current tick
    pre         \* component values and clock at the start of the current tick

vars == <<n, pool, mainPc, idx, ents, bodies, masses, accels, vels,
          positions, bounds, time, handles, sched, status, stageTick, ran,
          tick, clockLog, pre>>

-----------------------------------------------------------------------------
(* Bounds of the model *)

MaxN == 2
MaxTicks == 2
MaxDelta == 1

\* the number of entities of the worlds the gravity stage is run on alone
MaxNG == 3

\* worker-pool sizes: main builds the pool with num_threads(4); 1, 2 and 8
\* are the sizes the scheduler is also exercised with
Pools == {1, 2, 4, 8}

-----------------------------------------------------------------------------
(* Floating point values *)

\* the format: finite values are the multiples of 1/scale up to max/scale;
\* the operations are functions of the values, applied as FAdd[a, b]
F32 == [scale |-> 100, max |-> 40000]

Abs[i \in Int] == IF i < 0 THEN -i ELSE i

Sgn[i \in Int] == IF i < 0 THEN -1 ELSE IF i > 0 THEN 1 ELSE 0

\* the values: <<k, 1>> is k / scale, <<s, 0>> an infinity or NaN
Val == Int \X {0, 1}

NaN == <<0, 0>>
PosInf == <<1, 0>>
NegInf == <<-1, 0>>
Zero == <<0, 1>>

\* a / b for b > 0, rounded to the nearest integer, ties to even
RoundDiv[a \in Int, b \in Int] ==
    LET q == a \div b
        r == a - q * b
    IN  IF 2 * r < b THEN q
        ELSE IF 2 * r > b THEN q + 1
        ELSE IF q % 2 = 0 THEN q ELSE q + 1

\* the value k / scale, or the infinity it overflows to
Sat[k \in Int] ==
    IF k > F32.max THEN PosInf
    ELSE IF k < -F32.max THEN NegInf
    ELSE <<k, 1>>

\* the literal num/den
Dec(num, den) == Sat[RoundDiv[num * F32.scale, den]]

Fin(i) == Dec(i, 1)

IsNaN(a) == a = NaN
IsInf(a) == a[2] = 0 /\ a[1] # 0
IsFinite(a) == a[2] # 0

FNeg[a \in Val] == <<-a[1], a[2]>>

FAbs[a \in Val] == <<Abs[a[1]], a[2]>>

FAdd[a \in Val, b \in Val] ==
    IF IsNaN(a) \/ IsNaN(b) THEN NaN
    ELSE IF IsInf(a) /\ IsInf(b) THEN (IF a = b THEN a ELSE NaN)
    ELSE IF IsInf(a) THEN a
    ELSE IF IsInf(b) THEN b
    ELSE Sat[a[1] + b[1]]

FSub[a \in Val, b \in Val] == FAdd[a, FNeg[b]]

FMul[a \in Val, b \in Val] ==
    IF IsNaN(a) \/ IsNaN(b) THEN NaN
    ELSE IF IsInf(a) \/ IsInf(b)
         THEN (IF a[1] = 0 \/ b[1] = 0 THEN NaN ELSE <<Sgn[a[1]] * Sgn[b[1]], 0>>)
    ELSE Sat[RoundDiv[a[1] * b[1], F32.scale]]

FDiv[a \in Val, b \in Val] ==
    IF IsNaN(a) \/ IsNaN(b) THEN NaN
    ELSE IF IsInf(a) /\ IsInf(b) THEN NaN
    ELSE IF IsInf(a) THEN (IF b[1] < 0 THEN FNeg[a] ELSE a)
    ELSE IF IsInf(b) THEN Zero
    ELSE IF b[1] = 0 THEN (IF a[1] = 0 THEN NaN ELSE <<Sgn[a[1]], 0>>)
    ELSE Sat[RoundDiv[Sgn[b[1]] * a[1] * F32.scale, Abs[b[1]]]]

\* a <= b; every comparison with NaN is false
FLe[a \in Val, b \in Val] ==
    IF IsNaN(a) \/ IsNaN(b) THEN FALSE
    ELSE IF IsInf(a) \/ IsInf(b)
         THEN (a = b \/ a = NegInf \/ b = PosInf)
    ELSE a[1] <= b[1]

\* x.powf(2.0)
Powf2[a \in Val] == FMul[a, a]

-----------------------------------------------------------------------------
(* Helpers of the systems *)

\* const G: f32 = 6.67430e-11_f32, in the model's units of mass (G = 1):
\* 6.6743e-11 is below the resolution of the model's number format
G == Fin(1)

epsilon == Dec(5, 100)

\* the comparison of the signed differences: .abs() left out
overlappingSigned(pos_one, pos_two) ==
    IF FLe[FSub[pos_one[1], pos_two[1]], epsilon]
       /\ FLe[FSub[pos_one[2], pos_two[2]], epsilon]
    THEN TRUE
    ELSE FALSE

overlapping(pos_one, pos_two) ==
    IF FLe[FAbs[FSub[pos_one[1], pos_two[1]]], epsilon]
       /\ FLe[FAbs[FSub[pos_one[2], pos_two[2]]], epsilon]
    THEN TRUE
    ELSE FALSE

-----------------------------------------------------------------------------
(* The systems' run bodies *)

MaxOf(S) == IF S = {} THEN 0 ELSE CHOOSE m \in S : \A x \in S : x <= m

\* the inner loop of ApplyGravity::run for one ent_one: ent_two ranges over
\* the join of masses, positions and the entity storage, in identifier order
RECURSIVE GravityInner(_, _, _, _, _, _)
GravityInner(ent_one, ent_two, accel, ms, ps, es) ==
    LET inner == DOMAIN ms \cap DOMAIN ps \cap es
        mass_one == ms[ent_one]
        mass_two == ms[ent_two]
        pos_one == ps[ent_one]
        pos_two == ps[ent_two]
        dist_x == FAbs[FSub[pos_one[1], pos_two[1]]]
        dist_y == FAbs[FSub[pos_one[2], pos_two[2]]]
        force_x == FDiv[FMul[G, FMul[mass_one, mass_two]], Powf2[dist_x]]
        force_y == FDiv[FMul[G, FMul[mass_one, mass_two]], Powf2[dist_y]]
        next == IF ent_two \notin inner THEN accel
                ELSE IF ent_one = ent_two THEN accel
                ELSE IF overlapping(pos_one, pos_two) THEN accel
                ELSE <<FAdd[accel[1], FDiv[force_x, mass_one]],
                       FAdd[accel[2], FDiv[force_y, mass_one]]>>
    IN  IF ent_two > MaxOf(inner) THEN accel
        ELSE GravityInner(ent_one, ent_two + 1, next, ms, ps, es)

\* the gravity stage without the reset: it adds to the stored acceleration
ApplyGravityRunNoReset(ms, ps, acs, es) ==
    LET outer == DOMAIN ms \cap DOMAIN ps \cap DOMAIN acs \cap es
    IN  [e \in DOMAIN acs |->
            IF e \in outer THEN GravityInner(e, 1, acs[e], ms, ps, es)
            ELSE acs[e]]

\* ApplyGravity::run: the Acceleration store after the stage
ApplyGravityRun(ms, ps, acs, es) ==
    LET outer == DOMAIN ms \cap DOMAIN ps \cap DOMAIN acs \cap es
    IN  [e \in DOMAIN acs |->
            IF e \in outer THEN GravityInner(e, 1, <<Zero, Zero>>, ms, ps, es)
            ELSE acs[e]]

\* vel += accel + delta: the product written as a sum
ApplyAccelerationsRunSum(acs, delta, vs) ==
    [e \in DOMAIN vs |->
        IF e \in DOMAIN acs
        THEN <<FAdd[vs[e][1], FAdd[acs[e][1], delta]],
               FAdd[vs[e][2], FAdd[acs[e][2], delta]]>>
        ELSE vs[e]]

\* ApplyAccelerations::run: the Velocity store after the stage
ApplyAccelerationsRun(acs, delta, vs) ==
    [e \in DOMAIN vs |->
        IF e \in DOMAIN acs
        THEN <<FAdd[vs[e][1], FMul[acs[e][1], delta]],
               FAdd[vs[e][2], FMul[acs[e][2], delta]]>>
        ELSE vs[e]]

\* ApplyVelocities::run: the Position store after the stage
ApplyVelocitiesRun(vs, delta, ps) ==
    [e \in DOMAIN ps |->
        IF e \in DOMAIN vs
        THEN <<FAdd[ps[e][1], FMul[vs[e][1], delta]],
               FAdd[ps[e][2], FMul[vs[e][2], delta]]>>
        ELSE ps[e]]

\* UpdateTime::run with Instant::now() = current
UpdateTimeRun(t, current) ==
    [beginning |-> t.beginning,
     last      |-> current,
     total     |-> current - t.beginning,
     delta     |-> current - t.last]

-----------------------------------------------------------------------------
(* main: the world, the setup handles, the entities, the stage graph *)

Stores == {"EntityStorage", "Body", "Mass", "Acceleration", "Velocity",
           "Position", "Time", "WorldBounds"}

\* the systems' SystemData: the handles a system takes for one invocation
Access(sys) ==
    CASE sys = "UpdateTime" -> {<<"Time", "w">>}
      [] sys = "ApplyGravity" ->
            {<<"Mass", "r">>, <<"Position", "r">>, <<"Acceleration", "w">>,
             <<"EntityStorage", "r">>}
      [] sys = "ApplyAccelerations" ->
            {<<"Acceleration", "r">>, <<"Time", "r">>, <<"Velocity", "w">>}
      [] sys = "ApplyVelocities" ->
            {<<"Velocity", "r">>, <<"Time", "r">>, <<"Position", "w">>}

\* the handles main takes with get_data before it creates the entities
SetupHandles ==
    << <<"EntityStorage", "w">>, <<"Body", "w">>, <<"Mass", "w">>,
       <<"Acceleration", "w">>, <<"Velocity", "w">>, <<"Position", "w">> >>

\* main without drop(positions)
SetupDropsKeepPositions ==
    <<"EntityStorage", "Body", "Mass", "Acceleration", "Velocity">>

\* the handles main drops before the first tick
SetupDrops ==
    <<"EntityStorage", "Body", "Mass", "Acceleration", "Velocity", "Position">>

\* update_vels registered without its prerequisite apply_gravity
RegistrationsVelsNoGravity ==
    << [sys |-> "UpdateTime", name |-> "update_time", deps |-> {}],
       [sys |-> "ApplyGravity", name |-> "apply_gravity",
        deps |-> {"update_time"}],
       [sys |-> "ApplyAccelerations", name |-> "update_vels",
        deps |-> {"update_time"}],
       [sys |-> "ApplyVelocities", name |-> "update_positions",
        deps |-> {"update_time", "update_vels"}] >>

\* update_positions is never registered
RegistrationsNoPositions ==
    << [sys |-> "UpdateTime", name |-> "update_time", deps |-> {}],
       [sys |-> "ApplyGravity", name |-> "apply_gravity",
        deps |-> {"update_time"}],
       [sys |-> "ApplyAccelerations", name |-> "update_vels",
        deps |-> {"update_time", "apply_gravity"}] >>

\* update_positions registered without its prerequisite update_vels
RegistrationsPositionsNoVels ==
    << [sys |-> "UpdateTime", name |-> "update_time", deps |-> {}],
       [sys |-> "ApplyGravity", name |-> "apply_gravity",
        deps |-> {"update_time"}],
       [sys |-> "ApplyAccelerations", name |-> "update_vels",
        deps |-> {"update_time", "apply_gravity"}],
       [sys |-> "ApplyVelocities", name |-> "update_positions",
        deps |-> {"update_time"}] >>

\* no stage names update_time as a prerequisite
RegistrationsNoClockDeps ==
    << [sys |-> "UpdateTime", name |-> "update_time", deps |-> {}],
       [sys |-> "ApplyGravity", name |-> "apply_gravity", deps |-> {}],
       [sys |-> "ApplyAccelerations", name |-> "update_vels",
        deps |-> {"apply_gravity"}],
       [sys |-> "ApplyVelocities", name |-> "update_positions",
        deps |-> {"update_vels"}] >>

\* the integration stages registered in the other order: positions advance
\* before the velocities are updated
RegistrationsPositionsFirst ==
    << [sys |-> "UpdateTime", name |-> "update_time", deps |-> {}],
       [sys |-> "ApplyGravity", name |-> "apply_gravity",
        deps |-> {"update_time"}],
       [sys |-> "ApplyAccelerations", name |-> "update_vels",
        deps |-> {"update_time", "update_positions"}],
       [sys |-> "ApplyVelocities", name |-> "update_positions",
        deps |-> {"update_time", "apply_gravity"}] >>

\* apply_gravity registered with no prerequisite: it does not use the clock
RegistrationsGravityFree ==
    << [sys |-> "UpdateTime", name |-> "update_time", deps |-> {}],
       [sys |-> "ApplyGravity", name |-> "apply_gravity", deps |-> {}],
       [sys |-> "ApplyAccelerations", name |-> "update_vels",
        deps |-> {"update_time", "apply_gravity"}],
       [sys |-> "ApplyVelocities", name |-> "update_positions",
        deps |-> {"update_time", "update_vels"}] >>

\* the calls of scheduler.add, in order
Registrations ==
    << [sys |-> "UpdateTime", name |-> "update_time", deps |-> {}],
       [sys |-> "ApplyGravity", name |-> "apply_gravity",
        deps |-> {"update_time"}],
       [sys |-> "ApplyAccelerations", name |-> "update_vels",
        deps |-> {"update_time", "apply_gravity"}],
       [sys |-> "ApplyVelocities", name |-> "update_positions",
        deps |-> {"update_time", "update_vels"}] >>

\* values rng.gen_range can give one body: mass in [1, 5), velocity in
\* [-1, 1) on each axis, position in [0, 10) on each axis
BodyVals ==
    { [mass |-> Fin(1), vel |-> <<Zero, Zero>>, pos |-> <<Zero, Zero>>],
      [mass |-> Fin(1), vel |-> <<Zero, Zero>>, pos |-> <<Fin(5), Zero>>],
      [mass |-> Fin(2), vel |-> <<Dec(1, 2), Dec(-1, 2)>>,
       pos |-> <<Fin(1), Fin(2)>>],
      [mass |-> Fin(1), vel |-> <<Zero, Zero>>, pos |-> <<Fin(1), Fin(2)>>] }

Snapshot ==
    [masses |-> masses, positions |-> positions, vels |-> vels,
     accels |-> accels, ents |-> ents]

Init ==
    /\ n \in 0..MaxN
    /\ pool \in Pools
    /\ mainPc = "acquire"
    /\ idx = 0
    /\ ents = {}
    /\ bodies = {}
    /\ masses = <<>>
    /\ accels = <<>>
    /\ vels = <<>>
    /\ positions = <<>>
    /\ bounds = <<Fin(10), Fin(10)>>
    /\ \E l \in {0, 1} :
          time = [beginning |-> 0, last |-> l, total |-> 0, delta |-> 0]
    /\ handles = {}
    /\ sched = <<>>
    /\ status = <<>>
    /\ stageTick = <<>>
    /\ ran = <<>>
    /\ tick = 0
    /\ clockLog = <<>>
    /\ pre = [masses |-> <<>>, positions |-> <<>>, vels |-> <<>>,
              accels |-> <<>>, ents |-> {}]

\* let mut ents = Write::<EntityStorage>::get_data(&world); ... one per step
MainAcquire ==
    /\ mainPc = "acquire"
    /\ idx < Len(SetupHandles)
    /\ handles' = handles \cup
                    {<<"main", SetupHandles[idx + 1][1], SetupHandles[idx + 1][2]>>}
    /\ IF idx + 1 = Len(SetupHandles)
       THEN mainPc' = "create" /\ idx' = 0
       ELSE mainPc' = mainPc /\ idx' = idx + 1
    /\ UNCHANGED <<n, pool, ents, bodies, masses, accels, vels, positions,
                   bounds, time, sched, status, stageTick, ran, tick,
                   clockLog, pre>>

\* an iteration of the creation loop that leaves out bodies.add
CreateEntityNoBody ==
    /\ mainPc = "create"
    /\ idx < n
    /\ \E b \in BodyVals :
          LET e == MaxOf(ents) + 1
          IN  /\ ents' = ents \cup {e}
              /\ masses' = masses @@ (e :> b.mass)
              /\ accels' = accels @@ (e :> <<Zero, Zero>>)
              /\ vels' = vels @@ (e :> b.vel)
              /\ positions' = positions @@ (e :> b.pos)
    /\ idx' = idx + 1
    /\ UNCHANGED <<n, pool, mainPc, bodies, bounds, time, handles, sched,
                   status, stageTick, ran, tick, clockLog, pre>>

\* one iteration of for _ in 0..n: create_entity() and the five add calls
CreateEntity ==
    /\ mainPc = "create"
    /\ idx < n
    /\ \E b \in BodyVals :
          LET e == MaxOf(ents) + 1
          IN  /\ ents' = ents \cup {e}
              /\ bodies' = bodies \cup {e}
              /\ masses' = masses @@ (e :> b.mass)
              /\ accels' = accels @@ (e :> <<Zero, Zero>>)
              /\ vels' = vels @@ (e :> b.vel)
              /\ positions' = positions @@ (e :> b.pos)
    /\ idx' = idx + 1
    /\ UNCHANGED <<n, pool, mainPc, bounds, time, handles, sched, status,
                   stageTick, ran, tick, clockLog, pre>>

\* a creation loop that only ends after at least one pass through its body
CreateDoneAfterBody ==
    /\ mainPc = "create"
    /\ idx = n
    /\ n > 0
    /\ mainPc' = "register"
    /\ idx' = 0
    /\ UNCHANGED <<n, pool, ents, bodies, masses, accels, vels, positions,
                   bounds, time, handles, sched, status, stageTick, ran, tick,
                   clockLog, pre>>

\* the creation loop ends
CreateDone ==
    /\ mainPc = "create"
    /\ idx = n
    /\ mainPc' = "register"
    /\ idx' = 0
    /\ UNCHANGED <<n, pool, ents, bodies, masses, accels, vels, positions,
                   bounds, time, handles, sched, status, stageTick, ran, tick,
                   clockLog, pre>>

\* the stages g reaches from the stages S along at most k prerequisite edges
RECURSIVE Closure(_, _, _)
Closure(g, S, k) ==
    IF k = 0 THEN S
    ELSE Closure(g, S \cup UNION {g[x].deps \cap DOMAIN g : x \in S}, k - 1)

\* the construction check without the search for cycles
GraphValidNamesOnly(g) ==
    \A s \in DOMAIN g : g[s].deps \subseteq DOMAIN g

\* the scheduler's construction check: every prerequisite names a registered
\* stage and no stage is its own direct or transitive prerequisite
GraphValid(g) ==
    \A s \in DOMAIN g :
        /\ g[s].deps \subseteq DOMAIN g
        /\ s \notin Closure(g, g[s].deps, Cardinality(DOMAIN g))

\* scheduler.add(system, name, prerequisites), one call per step
MainRegister ==
    /\ mainPc = "register"
    /\ idx < Len(Registrations)
    /\ LET r == Registrations[idx + 1]
       IN  /\ sched' = sched @@ (r.name :> [sys |-> r.sys, deps |-> r.deps])
           /\ status' = status @@ (r.name :> "idle")
           /\ stageTick' = stageTick @@ (r.name :> 0)
           /\ ran' = ran @@ (r.name :> 0)
    /\ IF idx + 1 = Len(Registrations)
       THEN mainPc' = (IF GraphValid(sched') THEN "drop" ELSE "failed")
            /\ idx' = 0
       ELSE mainPc' = mainPc /\ idx' = idx + 1
    /\ UNCHANGED <<n, pool, ents, bodies, masses, accels, vels, positions,
                   bounds, time, handles, tick, clockLog, pre>>

\* drop(ents); drop(bodies); ... one per step
MainDrop ==
    /\ mainPc = "drop"
    /\ idx < Len(SetupDrops)
    /\ handles' = {h \in handles :
                      ~(h[1] = "main" /\ h[2] = SetupDrops[idx + 1])}
    /\ IF idx + 1 = Len(SetupDrops)
       THEN mainPc' = "loop" /\ idx' = 0
       ELSE mainPc' = mainPc /\ idx' = idx + 1
    /\ UNCHANGED <<n, pool, ents, bodies, masses, accels, vels, positions,
                   bounds, time, sched, status, stageTick, ran, tick,
                   clockLog, pre>>

-----------------------------------------------------------------------------
(* One invocation of each system on the world *)

RunUpdateTime(s) ==
    /\ \E current \in time.last .. time.last + MaxDelta :
          /\ time' = UpdateTimeRun(time, current)
          /\ clockLog' = Append(clockLog, <<s, "w", time'.delta>>)
    /\ UNCHANGED <<accels, vels, positions>>

RunApplyGravity(s) ==
    /\ accels' = ApplyGravityRun(masses, positions, accels, ents)
    /\ UNCHANGED <<time, clockLog, vels, positions>>

\* a velocity integration that also clears the acceleration it has used
RunApplyAccelerationsClearing(s) ==
    /\ vels' = ApplyAccelerationsRun(accels, Fin(time.delta), vels)
    /\ accels' = [e \in DOMAIN accels |-> <<Zero, Zero>>]
    /\ clockLog' = IF DOMAIN accels \cap DOMAIN vels = {} THEN clockLog
                   ELSE Append(clockLog, <<s, "r", time.delta>>)
    /\ UNCHANGED <<time, positions>>

RunApplyAccelerations(s) ==
    /\ vels' = ApplyAccelerationsRun(accels, Fin(time.delta), vels)
    /\ clockLog' = IF DOMAIN accels \cap DOMAIN vels = {} THEN clockLog
                   ELSE Append(clockLog, <<s, "r", time.delta>>)
    /\ UNCHANGED <<time, accels, positions>>

RunApplyVelocities(s) ==
    /\ positions' = ApplyVelocitiesRun(vels, Fin(time.delta), positions)
    /\ clockLog' = IF DOMAIN vels \cap DOMAIN positions = {} THEN clockLog
                   ELSE Append(clockLog, <<s, "r", time.delta>>)
    /\ UNCHANGED <<time, accels, vels>>

RunSystem(s) ==
    \/ sched[s].sys = "UpdateTime" /\ RunUpdateTime(s)
    \/ sched[s].sys = "ApplyGravity" /\ RunApplyGravity(s)
    \/ sched[s].sys = "ApplyAccelerations" /\ RunApplyAccelerations(s)
    \/ sched[s].sys = "ApplyVelocities" /\ RunApplyVelocities(s)

-----------------------------------------------------------------------------
(* The driver loop and the scheduler *)

\* the number of iterations of the driver loop
Ticks == 100000

\* main issues the next run while the previous one has not returned
LoopReadyNoWait ==
    mainPc \in {"loop", "inrun"} /\ tick < Ticks /\ tick < MaxTicks

\* the number of iterations the driver loop makes within the model's bound
TickLimit == IF Ticks < MaxTicks THEN Ticks ELSE MaxTicks

\* a driver loop that makes one iteration less
LoopReadyShort ==
    mainPc = "loop" /\ tick + 1 < Ticks /\ tick + 1 < MaxTicks

\* for _ in 0..100_000 { scheduler.run(&world); }: main is at the call
LoopReady == mainPc = "loop" /\ tick < Ticks /\ tick < MaxTicks

\* a stage is eligible once every stage of its prerequisite list has
\* completed in the current tick
Eligible(s) ==
    \A d \in sched[s].deps : d \in DOMAIN sched /\ status[d] = "done"

Running == {s \in DOMAIN status : status[s] = "running"}

\* run returns once every registered stage has completed
RunComplete == \A s \in DOMAIN status : status[s] = "done"

\* main calls scheduler.run(&world): a new tick begins
RunBegin ==
    /\ LoopReady
    /\ tick' = tick + 1
    /\ mainPc' = "inrun"
    /\ status' = [s \in DOMAIN sched |->
                    IF status[s] \in {"queued", "running"} THEN status[s]
                    ELSE "waiting"]
    /\ ran' = [s \in DOMAIN sched |-> 0]
    /\ clockLog' = <<>>
    /\ pre' = Snapshot
    /\ UNCHANGED <<n, pool, idx, ents, bodies, masses, accels, vels,
                   positions, bounds, time, handles, sched, stageTick>>

\* the scheduler hands an eligible stage to the worker pool
Dispatch(s) ==
    /\ status[s] = "waiting"
    /\ Eligible(s)
    /\ status' = [status EXCEPT ![s] = "queued"]
    /\ stageTick' = [stageTick EXCEPT ![s] = tick]
    /\ UNCHANGED <<n, pool, mainPc, idx, ents, bodies, masses, accels, vels,
                   positions, bounds, time, handles, sched, ran, tick,
                   clockLog, pre>>

\* a free worker takes the stage and fetches its SystemData
StageStart(s) ==
    /\ status[s] = "queued"
    /\ Cardinality(Running) < pool
    /\ status' = [status EXCEPT ![s] = "running"]
    /\ handles' = handles \cup {<<s, a[1], a[2]>> : a \in Access(sched[s].sys)}
    /\ UNCHANGED <<n, pool, mainPc, idx, ents, bodies, masses, accels, vels,
                   positions, bounds, time, sched, stageTick, ran, tick,
                   clockLog, pre>>

\* the system's run executes and returns; its SystemData is dropped
StageEnd(s) ==
    /\ status[s] = "running"
    /\ RunSystem(s)
    /\ status' = [status EXCEPT ![s] = "done"]
    /\ ran' = [ran EXCEPT ![s] = @ + 1]
    /\ handles' = {h \in handles : h[1] # s}
    /\ UNCHANGED <<n, pool, mainPc, idx, ents, bodies, masses, bounds, sched,
                   stageTick, tick, pre>>

\* scheduler.run returns to main
RunReturn ==
    /\ mainPc = "inrun"
    /\ RunComplete
    /\ mainPc' = "loop"
    /\ UNCHANGED <<n, pool, idx, ents, bodies, masses, accels, vels,
                   positions, bounds, time, handles, sched, status, stageTick,
                   ran, tick, clockLog, pre>>

\* the driver loop has made its last iteration: main returns
MainExit ==
    /\ mainPc = "loop"
    /\ ~LoopReady
    /\ mainPc' = "exit"
    /\ UNCHANGED <<n, pool, idx, ents, bodies, masses, accels, vels,
                   positions, bounds, time, handles, sched, status, stageTick,
                   ran, tick, clockLog, pre>>

\* the steps of the main thread
MainStep ==
    \/ MainAcquire
    \/ CreateEntity
    \/ CreateDone
    \/ MainRegister
    \/ MainDrop
    \/ RunBegin
    \/ RunReturn
    \/ MainExit

\* the steps of the scheduler's worker pool
PoolStep ==
    \/ \E s \in DOMAIN sched : Dispatch(s)
    \/ \E s \in DOMAIN sched : StageStart(s)
    \/ \E s \in DOMAIN sched : StageEnd(s)

Next ==
    \/ MainAcquire
    \/ CreateEntity
    \/ CreateDone
    \/ MainRegister
    \/ MainDrop
    \/ RunBegin
    \/ \E s \in DOMAIN sched : Dispatch(s)
    \/ \E s \in DOMAIN sched : StageStart(s)
    \/ \E s \in DOMAIN sched : StageEnd(s)
    \/ RunReturn
    \/ MainExit

Spec == Init /\ [][Next]_vars

\* the main thread and the worker pool keep running: neither stops while it
\* has a step to take
FairSpec == Spec /\ WF_vars(MainStep) /\ WF_vars(PoolStep)

-----------------------------------------------------------------------------
(* The scheduler on arbitrary stage graphs: main with no bodies, making    *)
(* any calls of scheduler.add over the names below before the first tick.  *)

\* the stages a call of add may register, each with its system
SystemOf ==
    [update_time |-> "UpdateTime", apply_gravity |-> "ApplyGravity",
     update_vels |-> "ApplyAccelerations"]

\* the names a prerequisite list may hold
DepNamesSched == DOMAIN SystemOf

InitSched ==
    /\ n = 0
    /\ pool \in Pools
    /\ mainPc = "register"
    /\ idx = 0
    /\ ents = {}
    /\ bodies = {}
    /\ masses = <<>>
    /\ accels = <<>>
    /\ vels = <<>>
    /\ positions = <<>>
    /\ bounds = <<Fin(10), Fin(10)>>
    /\ time = [beginning |-> 0, last |-> 0, total |-> 0, delta |-> 0]
    /\ handles = {<<"main", SetupHandles[i][1], SetupHandles[i][2]>> :
                     i \in 1..Len(SetupHandles)}
    /\ sched = <<>>
    /\ status = <<>>
    /\ stageTick = <<>>
    /\ ran = <<>>
    /\ tick = 0
    /\ clockLog = <<>>
    /\ pre = [masses |-> <<>>, positions |-> <<>>, vels |-> <<>>,
              accels |-> <<>>, ents |-> {}]

\* scheduler.add(system, name, deps) for a name not registered yet
AddStage(name, deps) ==
    /\ mainPc = "register"
    /\ name \notin DOMAIN sched
    /\ sched' = sched @@ (name :> [sys |-> SystemOf[name], deps |-> deps])
    /\ status' = status @@ (name :> "idle")
    /\ stageTick' = stageTick @@ (name :> 0)
    /\ ran' = ran @@ (name :> 0)
    /\ UNCHANGED <<n, pool, mainPc, idx, ents, bodies, masses, accels, vels,
                   positions, bounds, time, handles, tick, clockLog, pre>>

\* the last call of add has been made: construction ends with its check
SchedulerBuilt ==
    /\ mainPc = "register"
    /\ mainPc' = (IF GraphValid(sched) THEN "drop" ELSE "failed")
    /\ idx' = 0
    /\ UNCHANGED <<n, pool, ents, bodies, masses, accels, vels, positions,
                   bounds, time, handles, sched, status, stageTick, ran, tick,
                   clockLog, pre>>

NextSched ==
    \/ \E name \in DOMAIN SystemOf, deps \in SUBSET DepNamesSched :
          AddStage(name, deps)
    \/ SchedulerBuilt
    \/ MainDrop
    \/ RunBegin
    \/ \E s \in DOMAIN sched : Dispatch(s)
    \/ \E s \in DOMAIN sched : StageStart(s)
    \/ \E s \in DOMAIN sched : StageEnd(s)
    \/ RunReturn
    \/ MainExit

SpecSched == InitSched /\ [][NextSched]_vars

-----------------------------------------------------------------------------
(* The gravity stage on arbitrary component values: one invocation of      *)
(* ApplyGravity::run on a world of up to MaxN entities whose masses,       *)
(* positions and previous accelerations are drawn from the sets below.     *)

MassValsG == {Zero, Fin(1), Fin(2)}

PosValsG == {<<Zero, Zero>>, <<Fin(5), Zero>>, <<Fin(5), Fin(5)>>,
             <<Dec(1, 20), Zero>>}

AccValsG == {<<Zero, Zero>>, <<Fin(3), Fin(-1)>>}

InitG ==
    /\ n \in 0..MaxNG
    /\ pool = 4
    /\ mainPc = "inrun"
    /\ idx = 0
    /\ ents = 1..n
    /\ bodies = ents
    /\ masses \in [ents -> MassValsG]
    /\ positions \in [ents -> PosValsG]
    /\ \E a \in AccValsG : accels = [e \in ents |-> a]
    /\ vels = [e \in ents |-> <<Zero, Zero>>]
    /\ bounds = <<Fin(10), Fin(10)>>
    /\ time = [beginning |-> 0, last |-> 0, total |-> 0, delta |-> 0]
    /\ sched = [i \in {Registrations[k].name : k \in DOMAIN Registrations} |->
                  LET r == CHOOSE r \in {Registrations[k] : k \in DOMAIN Registrations} :
                              r.name = i
                  IN  [sys |-> r.sys, deps |-> r.deps]]
    /\ status = [s \in DOMAIN sched |->
                  IF sched[s].sys = "UpdateTime" THEN "done"
                  ELSE IF sched[s].sys = "ApplyGravity" THEN "running"
                  ELSE "waiting"]
    /\ handles = {<<s, a[1], a[2]>> :
                    s \in {t \in DOMAIN sched : sched[t].sys = "ApplyGravity"},
                    a \in Access("ApplyGravity")}
    /\ stageTick = [s \in DOMAIN sched |-> 1]
    /\ ran = [s \in DOMAIN sched |->
                  IF sched[s].sys = "UpdateTime" THEN 1 ELSE 0]
    /\ tick = 1
    /\ clockLog = << <<"update_time", "w", 0>> >>
    /\ pre = Snapshot

NextG == \E s \in DOMAIN sched : StageEnd(s)

SpecG == InitG /\ [][NextG]_vars

GravityDone ==
    \E s \in DOMAIN sched : sched[s].sys = "ApplyGravity" /\ status[s] = "done"

-----------------------------------------------------------------------------
(* Claims about the scheduler and the handles *)

Started(s) == s \in DOMAIN status /\ status[s] \in {"running", "done"}

Ended(s) == s \in DOMAIN status /\ status[s] = "done"

Returned == mainPc = "loop" /\ tick > 0

\* C1: a stage does not start before every stage of its prerequisite list
\* has finished in the same tick; for main's graph: apply_gravity only after
\* update_time, update_vels only after update_time and apply_gravity,
\* update_positions only after update_time and update_vels.
C1_PrereqOrder ==
    /\ \A b \in DOMAIN status :
          Started(b) => \A a \in sched[b].deps : Ended(a)
    /\ Started("apply_gravity") => Ended("update_time")
    /\ Started("update_vels") => Ended("update_time") /\ Ended("apply_gravity")
    /\ Started("update_positions") =>
          Ended("update_time") /\ Ended("update_vels")

C1_Witness ==
    /\ tick = 2
    /\ pool > 1
    /\ Ended("update_vels")
    /\ "update_positions" \in DOMAIN status
    /\ status["update_positions"] = "running"

\* C2: each call of scheduler.run executes every registered stage exactly
\* once and returns only after all four stages have completed.
C2_EachStageOnce ==
    /\ \A s \in DOMAIN ran : ran[s] <= 1
    /\ Returned =>
          /\ \A s \in DOMAIN sched : ran[s] = 1 /\ status[s] = "done"
          /\ \A s \in {"update_time", "apply_gravity", "update_vels",
                       "update_positions"} :
                s \in DOMAIN ran /\ ran[s] = 1 /\ status[s] = "done"

C2_Witness == Returned /\ tick = 2 /\ \A s \in DOMAIN sched : ran[s] = 1

\* C3: ticks never overlap: a stage is dispatched, runs and completes in the
\* tick of the run call in progress, and no stage is dispatched or running
\* once that call has returned.
C3_NoTickOverlap ==
    /\ \A s \in DOMAIN status :
          status[s] \in {"queued", "running", "done"} => stageTick[s] = tick
    /\ \A s \in DOMAIN status :
          status[s] \in {"queued", "running"} => mainPc = "inrun"
    /\ mainPc = "loop" =>
          \A s \in DOMAIN status : status[s] \in {"idle", "done"}

C3_Witness ==
    /\ tick = 2
    /\ "update_time" \in DOMAIN status
    /\ status["update_time"] = "running"
    /\ stageTick["update_time"] = 2

Conflict(s1, s2) ==
    \E a1 \in Access(sched[s1].sys), a2 \in Access(sched[s2].sys) :
        a1[1] = a2[1] /\ "w" \in {a1[2], a2[2]}

RECURSIVE Reach(_, _)
Reach(S, k) ==
    IF k = 0 THEN S
    ELSE Reach(S \cup UNION {sched[x].deps \cap DOMAIN sched : x \in S}, k - 1)

\* the direct and transitive prerequisites of a registered stage
Prereqs(s) == Reach(sched[s].deps \cap DOMAIN sched, Cardinality(DOMAIN sched))

AllRegistered == mainPc \in {"drop", "loop", "inrun"}

\* C4: every two registered stages whose declared access conflicts are
\* ordered by the prerequisite graph, and no two stages with conflicting
\* access are ever running at the same time.
C4_ConflictsOrdered ==
    /\ AllRegistered =>
          \A s1, s2 \in DOMAIN sched :
              (s1 # s2 /\ Conflict(s1, s2)) =>
                  (s1 \in Prereqs(s2) \/ s2 \in Prereqs(s1))
    /\ \A s1, s2 \in Running : s1 # s2 => ~Conflict(s1, s2)

C4_Witness ==
    /\ pool > 1
    /\ Running = {"update_positions"}
    /\ Conflict("update_positions", "update_vels")
    /\ Conflict("update_positions", "apply_gravity")

Writers(st) == {h \in handles : h[2] = st /\ h[3] = "w"}

Readers(st) == {h \in handles : h[2] = st /\ h[3] = "r"}

\* C5: each store and resource has at most one write handle and no read
\* handle, or only read handles; a stage holds handles only while its
\* invocation runs; main holds no handle from the first call of run on.
C5_HandleDiscipline ==
    /\ \A st \in Stores :
          /\ Cardinality(Writers(st)) <= 1
          /\ Writers(st) # {} => Readers(st) = {}
    /\ \A h \in handles :
          h[1] # "main" => (h[1] \in DOMAIN status /\ status[h[1]] = "running")
    /\ mainPc \in {"loop", "inrun"} => \A h \in handles : h[1] # "main"

C5_Witness ==
    /\ tick = 1
    /\ <<"apply_gravity", "Position", "r">> \in handles
    /\ <<"apply_gravity", "Acceleration", "w">> \in handles

ClockWrites == {i \in DOMAIN clockLog : clockLog[i][2] = "w"}

\* C6: in every tick the clock is written exactly once, by update_time only,
\* and that write completes before any other stage starts to read the clock;
\* the integration stages read the delta written in the same tick.
C6_ClockOnce ==
    /\ Cardinality(ClockWrites) <= 1
    /\ \A i \in ClockWrites : clockLog[i][1] = "update_time"
    /\ Returned => Cardinality(ClockWrites) = 1
    /\ \A s \in DOMAIN status :
          (Started(s) /\ <<"Time", "r">> \in Access(sched[s].sys)) =>
              ClockWrites # {}
    /\ \A i \in DOMAIN clockLog :
          clockLog[i][2] = "r" =>
              \E j \in ClockWrites : j < i /\ clockLog[j][3] = clockLog[i][3]

C6_Witness ==
    /\ tick = 2
    /\ Len(clockLog) = 3
    /\ clockLog[1][2] = "w"
    /\ clockLog[1][3] = 1
    /\ clockLog[2] = <<"update_vels", "r", 1>>
    /\ clockLog[3] = <<"update_positions", "r", 1>>

\* one tick run sequentially in the order update_time, apply_gravity,
\* update_vels, update_positions from component values p with clock delta d
TickOutcome(p, d) ==
    LET a == ApplyGravityRun(p.masses, p.positions, p.accels, p.ents)
        v == ApplyAccelerationsRun(a, Fin(d), p.vels)
        q == ApplyVelocitiesRun(v, Fin(d), p.positions)
    IN  [accels |-> a, vels |-> v, positions |-> q]

\* C7: the Position, Velocity and Acceleration values a tick produces are a
\* function of the component values at its start and of the clock delta
\* alone, whatever the pool size and the interleaving.
C7_Deterministic ==
    Returned =>
        [accels |-> accels, vels |-> vels, positions |-> positions]
            = TickOutcome(pre, time.delta)

C7_Witness ==
    /\ Returned
    /\ pool > 1
    /\ n = 2
    /\ time.delta = 1
    /\ accels # pre.accels
    /\ vels # pre.vels
    /\ positions # pre.positions

-----------------------------------------------------------------------------
(* Claims about the gravity stage *)

\* C8: when all masses are zero, every entity's acceleration is exactly zero
\* after one run of the gravity stage, whatever the number of entities, the
\* positions and the accelerations left by the previous tick.
C8_ZeroMassZeroAccel ==
    (GravityDone /\ \A e \in ents : masses[e] = Zero)
        => \A e \in ents : accels[e] = <<Zero, Zero>>

\* C9: the gravity stage never stores a non-finite value (Inf or NaN) into
\* any entity's acceleration.
C9_AccelFinite ==
    \A e \in DOMAIN accels : IsFinite(accels[e][1]) /\ IsFinite(accels[e][2])

\* C10: two bodies of positive mass, separated only along x and not
\* overlapping: after the gravity stage the x-acceleration of each has
\* magnitude G*m_other/dx^2 and points toward the other body (positive for
\* the body with the smaller x, negative for the body with the larger x).
C10_TowardOther ==
    (/\ GravityDone
     /\ ents = {1, 2}
     /\ \A e \in ents : masses[e] # Zero /\ FLe[Zero, masses[e]]
     /\ positions[1][2] = positions[2][2]
     /\ ~overlapping(positions[1], positions[2]))
        => \A i \in ents :
              LET j == 3 - i
                  dx == FAbs[FSub[positions[i][1], positions[j][1]]]
                  mag == FDiv[FMul[G, masses[j]], Powf2[dx]]
              IN  accels[i][1] =
                      IF FLe[positions[i][1], positions[j][1]] THEN mag
                      ELSE FNeg[mag]

-----------------------------------------------------------------------------
(* Claims about the integration stages, the frame and the driver loop *)

\* C11: an entity whose acceleration is zero when update_vels runs has the
\* velocity it had at the start of the tick; an entity whose velocity is zero
\* when update_positions runs has the position it had at the start of the
\* tick; for every clock delta.
C11_IntegrationIdentities ==
    /\ Ended("update_vels") =>
          \A e \in DOMAIN vels :
              (e \in DOMAIN accels /\ accels[e] = <<Zero, Zero>>)
                  => vels[e] = pre.vels[e]
    /\ Ended("update_positions") =>
          \A e \in DOMAIN positions :
              (e \in DOMAIN vels /\ vels[e] = <<Zero, Zero>>)
                  => positions[e] = pre.positions[e]

C11_Witness ==
    /\ Returned
    /\ time.delta = 1
    /\ \E e \in ents :
          accels[e] = <<Zero, Zero>> /\ vels[e] # <<Zero, Zero>>
    /\ \E e \in ents :
          vels[e] = <<Zero, Zero>> /\ positions[e] # <<Zero, Zero>>
    /\ vels = pre.vels
    /\ positions # pre.positions

\* C12: with n = 0 bodies a returned tick has run each of the four
\* registered stages once over the empty entity set, leaving every store
\* empty, and under fair scheduling the program goes from its start through
\* every tick of the driver loop to its end: every call of run returns.
C12_EmptyWorldTicks ==
    /\ [](n = 0 /\ Returned =>
            /\ ents = {}
            /\ DOMAIN sched = {"update_time", "apply_gravity", "update_vels",
                               "update_positions"}
            /\ \A s \in DOMAIN sched : ran[s] = 1 /\ Ended(s)
            /\ accels = << >> /\ vels = << >> /\ positions = << >>)
    /\ [](n = 0 /\ mainPc = "exit" => tick = TickLimit /\ RunComplete)
    /\ (n = 0 /\ mainPc = "acquire") ~> (n = 0 /\ mainPc = "exit")

C12_Witness ==
    /\ n = 0
    /\ Returned
    /\ tick = MaxTicks
    /\ \A s \in DOMAIN sched : ran[s] = 1

GraphComplete == \A s \in DOMAIN sched : sched[s].deps \subseteq DOMAIN sched

GraphAcyclic == \A s \in DOMAIN sched : s \notin Prereqs(s)

\* C13: a graph in which a prerequisite list names a stage that is never
\* registered, or in which the prerequisites form a cycle, makes the
\* construction of the scheduler fail before the first tick and before any
\* stage is dispatched; only complete acyclic graphs are ever run, and a run
\* that has not completed always has a stage the pool can dispatch, start or
\* end.
C13_GraphErrorsRejected ==
    /\ mainPc \in {"drop", "loop", "inrun", "exit"} =>
          GraphComplete /\ GraphAcyclic
    /\ mainPc = "failed" =>
          /\ ~(GraphComplete /\ GraphAcyclic)
          /\ tick = 0
          /\ \A s \in DOMAIN status : status[s] = "idle"
    /\ (mainPc = "register" /\ ~GraphComplete) => tick = 0
    /\ (mainPc = "inrun" /\ ~RunComplete) => ENABLED PoolStep

C13_Witness ==
    /\ mainPc = "failed"
    /\ DOMAIN sched = {"update_time", "apply_gravity"}
    /\ sched["update_time"].deps = {"apply_gravity"}
    /\ sched["apply_gravity"].deps = {"update_time"}

-----------------------------------------------------------------------------
(* Claims about the overlap predicate, the data flow of a tick, the frame  *)
(* of the stages, the entity set and the driver loop                       *)

\* positions with a coordinate that is not finite
NonFinitePos == {<<PosInf, Zero>>, <<NegInf, Zero>>, <<Fin(5), NaN>>}

\* C14: the overlap predicate is symmetric: overlapping(a, b) equals
\* overlapping(b, a) for every two positions a and b, among them the
\* positions of the entities the gravity stage runs on, pairs exactly
\* epsilon apart, and positions with infinite or NaN coordinates.
C14_OverlapSymmetric ==
    GravityDone =>
        \A a, b \in {positions[e] : e \in DOMAIN positions} \cup NonFinitePos :
            overlapping(a, b) = overlapping(b, a)

C14_Witness ==
    /\ GravityDone
    /\ \E i, j \in ents :
          /\ positions[i] # positions[j]
          /\ overlapping(positions[i], positions[j])
          /\ accels[i] = <<Zero, Zero>>
          /\ masses[i] # Zero /\ masses[j] # Zero

\* C15: at the end of a tick every entity has velocity v + a'*delta and
\* position p + (v + a'*delta)*delta, where delta is the value this tick's
\* clock update wrote, p and v are the position and velocity before the tick
\* and a' is the gravity stage's result on the masses and positions before
\* the tick; what the gravity stage stores is computed from the positions
\* before the tick, never from positions advanced in the same tick.
C15_SemiImplicitEuler ==
    LET a == ApplyGravityRun(pre.masses, pre.positions, pre.accels, pre.ents)
    IN  /\ (Ended("apply_gravity") /\ ~Started("update_vels")) => accels = a
        /\ Returned =>
              \E i \in ClockWrites :
                  LET delta == Fin(clockLog[i][3])
                  IN  \A e \in ents :
                          /\ accels[e] = a[e]
                          /\ vels[e] =
                               <<FAdd[pre.vels[e][1], FMul[a[e][1], delta]],
                                 FAdd[pre.vels[e][2], FMul[a[e][2], delta]]>>
                          /\ positions[e] =
                               <<FAdd[pre.positions[e][1],
                                      FMul[vels[e][1], delta]],
                                 FAdd[pre.positions[e][2],
                                      FMul[vels[e][2], delta]]>>

C15_Witness ==
    /\ Returned
    /\ \E i \in ClockWrites : clockLog[i][3] = 1
    /\ \E e \in ents :
          /\ pre.vels[e] = <<Zero, Zero>>
          /\ IsFinite(accels[e][1]) /\ accels[e][1] # Zero
          /\ IsFinite(accels[e][2]) /\ accels[e][2] # Zero
          /\ vels[e] = accels[e]
          /\ positions[e] # pre.positions[e]

\* the entities that contribute to the acceleration of i
Contributors(i) ==
    {j \in ents \ {i} : ~overlapping(positions[i], positions[j])}

\* (G*m_i*m_j / d^2) / m_i on one axis
Contribution(i, j, axis) ==
    LET d == FAbs[FSub[positions[i][axis], positions[j][axis]]]
    IN  FDiv[FDiv[FMul[G, FMul[masses[i], masses[j]]], Powf2[d]], masses[i]]

\* the sum of the contributions of the entities J, in identifier order
RECURSIVE ContributionSum(_, _, _)
ContributionSum(i, J, axis) ==
    IF J = {} THEN Zero
    ELSE LET j == MaxOf(J)
         IN  FAdd[ContributionSum(i, J \ {j}, axis), Contribution(i, j, axis)]

\* C16: after the gravity stage the acceleration of every entity i is, on
\* each axis, the sum over the entities j # i that do not overlap i of
\* (G*m_i*m_j / d^2) / m_i, d the absolute coordinate difference on that
\* axis; the pair (i, i) and overlapping pairs add nothing, and the value i
\* held before the stage does not enter the result.
C16_AccelIsPairSum ==
    GravityDone =>
        \A i \in ents :
            accels[i] = <<ContributionSum(i, Contributors(i), 1),
                          ContributionSum(i, Contributors(i), 2)>>

C16_Witness ==
    /\ GravityDone
    /\ n = 3
    /\ pre.accels[1] # <<Zero, Zero>>
    /\ Cardinality(Contributors(1)) = 2
    /\ overlapping(positions[2], positions[3])
    /\ positions[2] # positions[3]
    /\ IsFinite(accels[1][1]) /\ accels[1][1] # Zero
    /\ IsFinite(accels[1][2]) /\ accels[1][2] # Zero
    /\ accels[1] # pre.accels[1]

\* the step in which stage s finishes its run
Finishes(s) == status[s] = "running" /\ status'[s] = "done"

\* what a step of a tick may change
StageFrame ==
    mainPc \in {"loop", "inrun"} =>
        /\ UNCHANGED <<masses, bodies, bounds, ents>>
        /\ time'.beginning = time.beginning
        /\ \A s \in DOMAIN status :
              Finishes(s) =>
                  /\ (sched[s].sys = "UpdateTime" =>
                         UNCHANGED <<accels, vels, positions>>)
                  /\ (sched[s].sys = "ApplyGravity" =>
                         UNCHANGED <<time, vels, positions>>)
                  /\ (sched[s].sys = "ApplyAccelerations" =>
                         UNCHANGED <<time, accels, positions>>)
                  /\ (sched[s].sys = "ApplyVelocities" =>
                         UNCHANGED <<time, accels, vels>>)
        /\ (\A s \in DOMAIN status : ~Finishes(s)) =>
              UNCHANGED <<time, accels, vels, positions>>

\* C17: the step in which a stage runs changes only the stage's write
\* target: update_time only the clock (and not its beginning instant),
\* apply_gravity only Acceleration, update_vels only Velocity,
\* update_positions only Position; Mass, the body tag, the world bounds,
\* the entity set and the clock's beginning instant change in no step of
\* any tick, and outside the step of a stage nothing of the world changes.
C17_StageFrames == [][StageFrame]_vars

C17_Witness ==
    /\ mainPc = "inrun"
    /\ Ended("update_vels")
    /\ "update_positions" \in DOMAIN status
    /\ status["update_positions"] = "running"
    /\ time.delta = 1
    /\ accels # pre.accels
    /\ vels # pre.vels
    /\ positions = pre.positions
    /\ positions # ApplyVelocitiesRun(vels, Fin(time.delta), positions)

\* C18: from the first call of run to the end of the program the entity set
\* holds exactly the n entities the creation loop made, pairwise distinct,
\* the same set at the start of every tick, and each of them has one value in
\* each of the stores Body, Mass, Acceleration, Velocity and Position, which
\* hold nothing else.
C18_EntitySetFixed ==
    mainPc \in {"loop", "inrun", "exit"} =>
        /\ Cardinality(ents) = n
        /\ ents = 1..n
        /\ tick > 0 => pre.ents = ents
        /\ bodies = ents
        /\ DOMAIN masses = ents
        /\ DOMAIN accels = ents
        /\ DOMAIN vels = ents
        /\ DOMAIN positions = ents
        /\ \A e \in ents :
              /\ masses[e] \in Val
              /\ accels[e] \in Val \X Val
              /\ vels[e] \in Val \X Val
              /\ positions[e] \in Val \X Val

C18_Witness ==
    /\ mainPc = "exit"
    /\ n = MaxN
    /\ tick = MaxTicks
    /\ Cardinality(ents) = MaxN
    /\ positions # pre.positions

\* C19: the graph main registers is a chain (each stage has the one before
\* it among its prerequisites), which orders every two of the four stages, so
\* for every pool size at most one stage is running at any moment and the
\* stages of a tick execute in the order update_time, apply_gravity,
\* update_vels, update_positions: each starts only after the one before it
\* has ended.
C19_TotalOrder ==
    /\ AllRegistered =>
          /\ DOMAIN sched = {"update_time", "apply_gravity", "update_vels",
                             "update_positions"}
          /\ "update_time" \in sched["apply_gravity"].deps
          /\ "apply_gravity" \in sched["update_vels"].deps
          /\ "update_vels" \in sched["update_positions"].deps
    /\ Cardinality(Running) <= 1
    /\ Started("apply_gravity") => Ended("update_time")
    /\ Started("update_vels") => Ended("apply_gravity")
    /\ Started("update_positions") => Ended("update_vels")

C19_Witness ==
    /\ pool = 8
    /\ tick = 2
    /\ n > 0
    /\ Running = {"update_vels"}
    /\ Ended("update_time") /\ Ended("apply_gravity")
    /\ status["update_positions"] = "waiting"

\* a step of the driver loop: the tick counter moves only by a call of run,
\* by one, and a run is left only by its return, with every stage done
DriverStep ==
    /\ tick' = tick \/ (tick' = tick + 1 /\ mainPc = "loop" /\ mainPc' = "inrun")
    /\ (mainPc = "inrun" /\ mainPc' # "inrun") =>
          (mainPc' = "loop" /\ RunComplete)
    /\ mainPc' = "exit" => (mainPc \in {"loop", "exit"} /\ tick = TickLimit)
    /\ mainPc = "exit" => mainPc' = "exit"

\* C20: the driver loop makes exactly Ticks = 100,000 calls of run (within
\* the model: TickLimit) and then main returns: under fair scheduling of
\* main and of the worker pool every call of run returns, the tick counter
\* moves by one per call so no tick is skipped or repeated, the program
\* terminates, and it terminates only after the last tick.
C20_RunsAllTicks ==
    /\ [](mainPc = "exit" => (tick = TickLimit /\ RunComplete))
    /\ [][DriverStep]_vars
    /\ <>(mainPc = "exit")

C20_Witness ==
    /\ mainPc = "exit"
    /\ tick = TickLimit
    /\ tick > 1
    /\ n > 0
    /\ \A s \in DOMAIN sched : ran[s] = 1 /\ stageTick[s] = TickLimit

====
